---- MODULE Spec2Model ----
(***************************************************************************)
(* Model of the Fusion360 "Export for Printing" add-in                     *)
(* (src/commands/ExportCommand.py): the assembly traversal, the export     *)
(* configuration file, the export manifest ("version control" file) and    *)
(* the export loop with its skip decision, temporary reorientation and     *)
(* cancel handling.                                                        *)
(*                                                                         *)
(* Strings are sequences of tokens (a token is a character or a short      *)
(* fixed piece such as "stl"), so that lower(), replace(), endswith(),     *)
(* slicing and concatenation are computed as the code computes them.       *)
(* Python's None is a sentinel of the field's type.  Time stamps are       *)
(* integers; the ISO-8601 strings the code compares order the same way.    *)
(***************************************************************************)
EXTENDS Integers, Sequences, FiniteSets, TLC

VARIABLES
  design,          \* the open design: components, their names and occurrences
  sel,             \* the selected root (Component or Occurrence) of the running command
  revisionId,      \* Component.revisionId, per component
  moveFeatures,    \* number of move features in Component.features.moveFeatures
  files,           \* mesh files existing in the output directory (full paths)
  configFile,      \* <<>> or <<[v, fmt, components, mtime]>>: export_for_printing.json
  manifestFile,    \* <<>> or <<dict>>: export_for_printing.version.json
  clock,           \* wall clock (datetime.now(), st_mtime)
  steps,           \* number of commands run and of changes made by the user so far
  pc,              \* position of on_execute/export
  main_cfg,        \* export(): the parsed ExportConfig
  components,      \* export(): list of (cfg, cmp) pairs to process
  i,               \* export(): loop index (1-based) into components
  version_control, \* export(): the manifest dictionary in memory
  dialog,          \* the progress dialog: [shown, wasCancelled, hidden, progressValue]
  newMoveFeature,  \* export(): TRUE iff newMoveFeature is not None
  result,          \* how the last on_execute ended (message box / exception)
  loaded,          \* history: the manifest file as it was at the start of the run
  log,             \* history: one record per loop iteration of the run
  mf0,             \* history: moveFeatures at the start of the run
  files0           \* history: files at the start of the run

vars == <<design, sel, revisionId, moveFeatures, files, configFile, manifestFile, clock,
          steps, pc, main_cfg, components, i, version_control, dialog, newMoveFeature,
          result, loaded, log, mf0, files0>>

-----------------------------------------------------------------------------
(* Bounds of the model *)

\* The user runs the command or changes the configuration, the design or the
\* files at most this often.
MaxSteps == 4

-----------------------------------------------------------------------------
(* Python values *)

None == "<None>"          \* None in a field holding a one-token string (up)
NoneStr == <<"<None>">>   \* None in a field holding a string
NoneInt == -1             \* None in a field holding an integer

EndsWith(s, suffix) ==
  /\ Len(suffix) <= Len(s)
  /\ SubSeq(s, Len(s) - Len(suffix) + 1, Len(s)) = suffix

StartsWith(s, prefix) ==
  /\ Len(prefix) <= Len(s)
  /\ SubSeq(s, 1, Len(prefix)) = prefix

\* str.lower(), token by token
LowerTok(t) ==
  CASE t = "A" -> "a"
    [] t = "B" -> "b"
    [] t = "S" -> "s"
    [] t = "R" -> "r"
    [] OTHER -> t

Lower(s) == [k \in 1..Len(s) |-> LowerTok(s[k])]

\* str.replace(old, new) for one-character old and new
Replace(s, old, new) == [k \in 1..Len(s) |-> IF s[k] = old THEN new ELSE s[k]]

\* An insertion-ordered dict is a sequence of <<key, value>> pairs with distinct keys.
Keys(d) == [k \in 1..Len(d) |-> d[k][1]]
KeySet(d) == {d[k][1] : k \in 1..Len(d)}
Has(d, key) == key \in KeySet(d)
Get(d, key, default) ==
  IF Has(d, key) THEN d[CHOOSE k \in 1..Len(d) : d[k][1] = key][2] ELSE default
Set(d, key, val) ==
  IF Has(d, key)
  THEN [k \in 1..Len(d) |-> IF d[k][1] = key THEN <<key, val>> ELSE d[k]]
  ELSE Append(d, <<key, val>>)

RECURSIVE Update(_, _)
\* dict.update(other)
Update(d, other) ==
  IF other = <<>> THEN d
  ELSE Update(Set(d, other[1][1], other[1][2]), Tail(other))

-----------------------------------------------------------------------------
(* The host's design: components 1..n, component 1 the root component.     *)
(* occs[c] lists the occurrences placed directly in component c; an        *)
(* occurrence is [component, inst] and is named "<component name>:<inst>". *)

RootComp == 1

Occ(c, n) == [component |-> c, inst |-> n]

\* R { A:1, A:2, S:1 { B:1 } }
Design1 ==
  [names |-> << <<"R">>, <<"A">>, <<"S">>, <<"B">> >>,
   occs  |-> << <<Occ(2, 1), Occ(2, 2), Occ(3, 1)>>, <<>>, <<Occ(4, 1)>>, <<>> >>]

\* R { S:2 { "B a":2, A:2 }, A:1 }, where the two "A" are different components (4, 2);
\* S:1 was deleted, so no occurrence of S ends in ":1"
Design2 ==
  [names |-> << <<"R">>, <<"A">>, <<"S">>, <<"A">>, <<"B", " ", "a">> >>,
   occs  |-> << <<Occ(3, 2), Occ(2, 1)>>, <<>>, <<Occ(5, 2), Occ(4, 2)>>, <<>>, <<>> >>]

\* a design with no occurrence at all
Design3 == [names |-> << <<"R">> >>, occs |-> << <<>> >>]

Designs == {Design1, Design2, Design3}

Comps(d) == 1..Len(d.names)

OccName(d, occ) == d.names[occ.component] \o <<":", ToString(occ.inst)>>

\* The selectable roots: the root component, or an occurrence at any depth.
\* An occurrence's childOccurrences are the occurrences placed in its component.
Component(c) == [kind |-> "Component", component |-> c]
Occurrence(c) == [kind |-> "Occurrence", component |-> c]
Selections(d) ==
  {Component(RootComp)} \cup
  UNION {{Occurrence(d.occs[p][k].component) : k \in 1..Len(d.occs[p])} : p \in Comps(d)}

RECURSIVE EnumerateOccurrence(_, _), EnumerateEach(_, _, _)
\* recursiveEnumerateComponents, the Occurrence branch
EnumerateOccurrence(d, occ) ==
  EnumerateEach(d, d.occs[occ.component],
                <<<<d.names[occ.component], occ.component>>>>)

\* for occ in occs: rv.update(recursiveEnumerateComponents(occ))
EnumerateEach(d, occs, rv) ==
  IF occs = <<>> THEN rv
  ELSE EnumerateEach(d, Tail(occs), Update(rv, EnumerateOccurrence(d, Head(occs))))

\* (mutant) the traversal stops at the root's own occurrences
EnumerateShallow(d, rootOcc) ==
  Update(<<<<d.names[rootOcc.component], rootOcc.component>>>>,
         [k \in 1..Len(d.occs[rootOcc.component]) |->
            <<d.names[d.occs[rootOcc.component][k].component],
              d.occs[rootOcc.component][k].component>>])

\* recursiveEnumerateComponents(rootOcc)
recursiveEnumerateComponents(d, rootOcc) ==
  IF rootOcc.kind = "Component"
  THEN EnumerateEach(d, d.occs[rootOcc.component],
                     <<<<d.names[rootOcc.component], rootOcc.component>>>>)
  ELSE EnumerateOccurrence(d, rootOcc)

RECURSIVE recursiveCountOccurences(_, _), CountFirst(_, _, _), CountMerge(_, _, _)
\* first loop: rv[occ.component.name] += 1
RECURSIVE CountEach(_, _, _)
CountEach(d, occs, rv) ==
  IF occs = <<>> THEN rv
  ELSE LET n == d.names[Head(occs).component]
       IN CountEach(d, Tail(occs), Set(rv, n, Get(rv, n, 0) + 1))

\* for key, count in child.items(): rv[key] += count * rv[occ.component.name]
CountMerge(child, name, rv) ==
  IF child = <<>> THEN rv
  ELSE LET key == child[1][1]
           count == child[1][2]
       IN CountMerge(Tail(child), name,
                     Set(rv, key, Get(rv, key, 0) + count * Get(rv, name, 0)))

\* second loop: recur on the occurrences whose name ends in ":1"
CountFirst(d, occs, rv) ==
  IF occs = <<>> THEN rv
  ELSE LET occ == Head(occs)
       IN CountFirst(d, Tail(occs),
            IF EndsWith(OccName(d, occ), <<":", "1">>)
            THEN CountMerge(recursiveCountOccurences(d, d.occs[occ.component]),
                            d.names[occ.component], rv)
            ELSE rv)

recursiveCountOccurences(d, occs) == CountFirst(d, occs, CountEach(d, occs, <<>>))

\* on_create: self.component_counts
component_counts(d) == recursiveCountOccurences(d, d.occs[RootComp])

-----------------------------------------------------------------------------
(* The export configuration: ComponentExportConfig, ExportConfig,          *)
(* generate, emit_file, parse_file                                         *)

VALID_ORIENTATIONS == {"x", "y", "z", "-x", "-y", "-z"}

\* The fields of the ComponentExportConfig dataclass
Attributes == {"name", "to", "up", "fmt", "count"}

ComponentExportConfig(name, to, up, fmt, count) ==
  [name |-> name, to |-> to, up |-> up, fmt |-> fmt, count |-> count]

RECURSIVE GenerateComponents(_)
\* ComponentExportConfig(name=cmp, to=cmp.lower().replace(" ", "_")) for each name
GenerateComponents(component_names) ==
  IF component_names = <<>> THEN <<>>
  ELSE <<ComponentExportConfig(Head(component_names),
                               Replace(Lower(Head(component_names)), " ", "_"),
                               None, NoneStr, NoneInt)>>
       \o GenerateComponents(Tail(component_names))

\* ExportConfig.generate
generate(component_names) ==
  [fmt |-> <<"stl">>, components |-> GenerateComponents(component_names),
   modified |-> NoneInt]

\* ComponentExportConfig.to_dict: <<dict>>, or <<>> when it raises AttributeError
\* (it reads self.orientation, and the class has no such attribute).
\* A key the code leaves out of the dict is None here.
to_dict(cmp) ==
  IF "orientation" \notin Attributes THEN <<>>
  ELSE <<[name |-> cmp.name, to |-> cmp.to, up |-> cmp.up, fmt |-> cmp.fmt,
          count |-> cmp.count]>>

\* Python's order on strings, on the characters component names are made of
Alphabet == <<" ", ".", ":", "A", "B", "R", "S", "_", "a", "b", "r", "s">>
Code(t) == CHOOSE k \in 1..Len(Alphabet) : Alphabet[k] = t

RECURSIVE StrLess(_, _)
StrLess(a, b) ==
  IF b = <<>> THEN FALSE
  ELSE IF a = <<>> THEN TRUE
  ELSE IF Head(a) = Head(b) THEN StrLess(Tail(a), Tail(b))
  ELSE Code(Head(a)) < Code(Head(b))

RECURSIVE InsertByName(_, _), SortedByName(_)
InsertByName(x, sorted) ==
  IF sorted = <<>> THEN <<x>>
  ELSE IF StrLess(x.name, Head(sorted).name) THEN <<x>> \o sorted
  ELSE <<Head(sorted)>> \o InsertByName(x, Tail(sorted))

\* sorted(dicts, key=lambda x: x["name"]): stable
SortedByName(dicts) ==
  IF dicts = <<>> THEN <<>>
  ELSE InsertByName(dicts[Len(dicts)], SortedByName(SubSeq(dicts, 1, Len(dicts) - 1)))

RECURSIVE ToDicts(_)
\* (cmp.to_dict() for cmp in config.components): <<list>>, or <<>> when one raises
ToDicts(cmps) ==
  IF cmps = <<>> THEN << <<>> >>
  ELSE LET d == to_dict(Head(cmps))
           rest == ToDicts(Tail(cmps))
       IN IF d = <<>> \/ rest = <<>> THEN <<>> ELSE << d \o rest[1] >>

\* emit_file: <<file content>>, or <<>> when it raises before write_text
emit_file(config, now) ==
  LET dicts == ToDicts(config.components)
  IN IF dicts = <<>> THEN <<>>
     ELSE <<[v |-> 1, fmt |-> config.fmt, components |-> SortedByName(dicts[1]),
             mtime |-> now]>>

\* parse_file, after the version assertion
parse_file(file, counts) ==
  [fmt |-> file.fmt,
   components |->
     [k \in 1..Len(file.components) |->
        LET cmp == file.components[k]
        IN IF cmp.count = NoneInt
           THEN [cmp EXCEPT !.count = Get(counts, cmp.name, 1)]
           ELSE cmp],
   modified |-> file.mtime]

\* The configuration files a user writes (the file is edited by hand).
CfgPlain ==
  [v |-> 1, fmt |-> <<"stl">>,
   components |->
     << ComponentExportConfig(<<"A">>, <<"a">>, None, NoneStr, NoneInt),
        ComponentExportConfig(<<"B">>, <<"b">>, "x", NoneStr, NoneInt),
        ComponentExportConfig(<<"S">>, <<"s", ".", "stl">>, "z", NoneStr, 3) >>]

\* two entries with the same file key, and a component that is in no design
CfgSameKey ==
  [v |-> 1, fmt |-> <<"stl">>,
   components |->
     << ComponentExportConfig(<<"A">>, <<"p">>, None, NoneStr, NoneInt),
        ComponentExportConfig(<<"Z">>, <<"z">>, None, NoneStr, NoneInt),
        ComponentExportConfig(<<"S">>, <<"p">>, None, NoneStr, 3) >>]

\* a format override, and an orientation that is not valid
CfgInvalidUp ==
  [v |-> 1, fmt |-> <<"stl">>,
   components |->
     << ComponentExportConfig(<<"S">>, <<"s", ".">>, "-y", <<"obj">>, NoneInt),
        ComponentExportConfig(<<"A">>, <<"a">>, "up", NoneStr, NoneInt) >>]

\* a format that is more than an extension: A goes to a_x1.b_x2.stl
CfgOddFormat ==
  [v |-> 1, fmt |-> <<"b", "_x", "2", ".", "stl">>,
   components |->
     << ComponentExportConfig(<<"A">>, <<"a">>, None, NoneStr, 1) >>]

\* S goes to a_x1.b_x2.stl, under another file key than A's
CfgOddTarget ==
  [v |-> 1, fmt |-> <<"stl">>,
   components |->
     << ComponentExportConfig(<<"S">>, <<"a", "_x", "1", ".", "b">>, None, NoneStr, 2),
        ComponentExportConfig(<<"A">>, <<"a">>, None, NoneStr, 1) >>]

CfgBadVersion == [v |-> 2, fmt |-> <<"stl">>, components |-> <<>>]

Configs == {CfgPlain, CfgSameKey, CfgInvalidUp, CfgOddFormat, CfgOddTarget, CfgBadVersion}

-----------------------------------------------------------------------------
(* export(): file names and the manifest                                   *)

\* The output directory, an absolute path (it comes from the folder dialog)
output_dir == <<"/out/">>

\* (mutant) the paths are concatenated whatever b is
PathJoinConcat(a, b) == a \o b

\* pathlib's a / b: an absolute b replaces a
PathJoin(a, b) == IF StartsWith(b, <<"/out/">>) THEN b ELSE a \o b

\* a or b
Or(a, b) == IF a = NoneStr \/ a = <<>> THEN b ELSE a

file_ext(cfg, cfgmain) == Or(cfg.fmt, cfgmain.fmt)

\* file_key: cfg.to, without the extension when it ends with it
file_key(cfg, cfgmain) ==
  LET ext == file_ext(cfg, cfgmain)
  IN IF EndsWith(cfg.to, ext) THEN SubSeq(cfg.to, 1, Len(cfg.to) - Len(ext)) ELSE cfg.to

\* filename = f"{file_to}.{file_ext}", file_to with the count suffix
filename(cfg, cfgmain) ==
  file_key(cfg, cfgmain)
  \o (IF cfg.count # NoneInt THEN <<"_x", ToString(cfg.count)>> ELSE <<>>)
  \o <<".">> \o file_ext(cfg, cfgmain)

filepath(cfg, cfgmain) == PathJoin(output_dir, filename(cfg, cfgmain))

\* version_control.get(file_key, None): <<>> for None, else <<entry>>
old_version(vc, key) == IF key \in DOMAIN vc THEN <<vc[key]>> ELSE <<>>

\* The test of lines 191-196: the recorded export is still current, skip it
Unchanged(old, name, rev, exists, modified) ==
  /\ old.component = name
  /\ old.revisionId = rev
  /\ exists
  /\ (modified # NoneInt /\ old.changed < modified)

\* Lines 206-210: the files to unlink before a re-export
OldFiles(old, path, existing) ==
  IF old # <<>> /\ old[1].filename # path
     /\ PathJoin(output_dir, old[1].filename) \in existing
  THEN {PathJoin(output_dir, old[1].filename)}
  ELSE {}

\* Lines 212-218: the manifest entry of an export
NewEntry(d, c, path, rev, now) ==
  [component |-> d.names[c], filename |-> path, revisionId |-> rev,
   fromDocument |-> d.names[RootComp], changed |-> now]

\* Line 231: the component is rotated for the export
Rotates(cfg) == cfg.up # None /\ cfg.up # "z"

\* Lines 141-146: the (cfg, cmp) pairs of the configured components that are found
RECURSIVE FoundComponents(_, _)
FoundComponents(cmps, all_components) ==
  IF cmps = <<>> THEN <<>>
  ELSE (IF Has(all_components, Head(cmps).name)
        THEN <<[cfg |-> Head(cmps),
                cmp |-> Get(all_components, Head(cmps).name, 0)]>>
        ELSE <<>>)
       \o FoundComponents(Tail(cmps), all_components)

\* (mutant) the existing manifest is not read
LoadManifestFresh(file) == <<>>

\* Lines 162-165: the manifest to start from
LoadManifest(file) == IF file # <<>> THEN file[1] ELSE <<>>

-----------------------------------------------------------------------------
(* The state machine.  on_execute also stores the directory and the        *)
(* selection in the settings file (update_settings); nothing modelled here *)
(* reads them, so they are left out.                                       *)

NoDialog == [shown |-> FALSE, wasCancelled |-> FALSE, hidden |-> FALSE, progressValue |-> 0]

Init ==
  /\ design \in Designs
  /\ sel = Component(RootComp)
  /\ revisionId = [c \in Comps(design) |-> 0]
  /\ moveFeatures = [c \in Comps(design) |-> 0]
  /\ files = {}
  /\ configFile = <<>>
  /\ manifestFile = <<>>
  /\ clock = 1
  /\ steps = 0
  /\ pc = "idle"
  /\ main_cfg = generate(<<>>)
  /\ components = <<>>
  /\ i = 1
  /\ version_control = <<>>
  /\ dialog = NoDialog
  /\ newMoveFeature = FALSE
  /\ result = "none"
  /\ loaded = <<>>
  /\ log = <<>>
  /\ mf0 = moveFeatures
  /\ files0 = files

exportLocals == <<main_cfg, components, i, version_control, dialog, newMoveFeature>>
history == <<loaded, log, mf0, files0>>
host == <<design, revisionId, moveFeatures>>

(* The environment, between two commands.  The clock advances with every   *)
(* configuration edit and every command, which is what orders the export   *)
(* times against the configuration file's modification time.               *)

CanEdit == pc = "idle" /\ steps < MaxSteps

\* the user writes the configuration file
EditConfig ==
  /\ CanEdit
  /\ steps' = steps + 1
  /\ clock' = clock + 1
  /\ \E c \in Configs :
       configFile' = <<[v |-> c.v, fmt |-> c.fmt, components |-> c.components,
                        mtime |-> clock + 1]>>
  /\ UNCHANGED <<host, sel, files, manifestFile, pc, exportLocals, result, history>>

\* the user changes a component in the host: its revisionId changes
ModifyComponent ==
  /\ CanEdit
  /\ steps' = steps + 1
  /\ \E c \in Comps(design) : revisionId' = [revisionId EXCEPT ![c] = @ + 1]
  /\ UNCHANGED <<design, moveFeatures, sel, files, configFile, manifestFile, clock, pc,
                 exportLocals, result, history>>

\* the user removes an exported file
RemoveFile ==
  /\ CanEdit
  /\ steps' = steps + 1
  /\ \E f \in files : files' = files \ {f}
  /\ UNCHANGED <<host, sel, configFile, manifestFile, clock, pc, exportLocals, result,
                 history>>

\* the user presses the progress dialog's cancel button
Cancel ==
  /\ pc \in {"loop", "exporting", "exported"}
  /\ dialog.shown /\ ~dialog.wasCancelled
  /\ dialog' = [dialog EXCEPT !.wasCancelled = TRUE]
  /\ UNCHANGED <<host, sel, files, configFile, manifestFile, clock, steps, pc, main_cfg,
                 components, i, version_control, newMoveFeature, result, history>>

(* on_execute *)

CanExecute == pc = "idle" /\ steps < MaxSteps

\* lines 346-348: the selection is neither an Occurrence nor a Component
OnExecuteBadSelection ==
  /\ CanExecute
  /\ steps' = steps + 1
  /\ result' = "Please select a component to export."
  /\ pc' = "done"
  /\ UNCHANGED <<host, sel, files, configFile, manifestFile, clock, exportLocals,
                 history>>

\* lines 356-364: there is no configuration file, create one
OnExecuteCreateConfig ==
  /\ CanExecute
  /\ configFile = <<>>
  /\ \E s \in Selections(design) : sel' = s
  /\ steps' = steps + 1
  /\ LET emitted == emit_file(generate(Keys(component_counts(design))), clock + 1)
     IN IF emitted = <<>>
        THEN /\ result' = "AttributeError"
             /\ pc' = "raised"
             /\ UNCHANGED configFile
        ELSE /\ result' = "Created new export configuration file."
             /\ pc' = "done"
             /\ configFile' = emitted
  /\ clock' = clock + 1
  /\ UNCHANGED <<host, files, manifestFile, exportLocals, history>>

\* line 85: parse_file rejects the file's version
OnExecuteBadVersion ==
  /\ CanExecute
  /\ configFile # <<>>
  /\ configFile[1].v # 1
  /\ \E s \in Selections(design) : sel' = s
  /\ steps' = steps + 1
  /\ result' = "AssertionError"
  /\ pc' = "raised"
  /\ UNCHANGED <<host, files, configFile, manifestFile, clock, exportLocals, history>>

\* lines 367-368 and 137-165: parse the configuration and enter export() up to its loop
OnExecuteExport ==
  /\ CanExecute
  /\ configFile # <<>>
  /\ configFile[1].v = 1
  /\ steps' = steps + 1
  /\ \E s \in Selections(design) :
       /\ sel' = s
       /\ components' = FoundComponents(
                          parse_file(configFile[1], component_counts(design)).components,
                          recursiveEnumerateComponents(design, s))
  /\ main_cfg' = parse_file(configFile[1], component_counts(design))
  /\ dialog' = [shown |-> TRUE, wasCancelled |-> FALSE, hidden |-> FALSE,
                progressValue |-> 0]
  /\ version_control' = LoadManifest(manifestFile)
  /\ i' = 1
  /\ newMoveFeature' = FALSE
  /\ pc' = "loop"
  /\ result' = "none"
  /\ loaded' = manifestFile
  /\ log' = <<>>
  /\ mf0' = moveFeatures
  /\ files0' = files
  /\ clock' = clock + 1
  /\ UNCHANGED <<host, files, configFile, manifestFile>>

(* export(): one loop iteration, in the steps between which the host runs *)

InLoop == pc = "loop" /\ i <= Len(components)
cfg == components[i].cfg
cmp == components[i].cmp
key == file_key(cfg, main_cfg)
path == filepath(cfg, main_cfg)
old == old_version(version_control, key)

Skips ==
  /\ old # <<>>
  /\ Unchanged(old[1], design.names[cmp], revisionId[cmp], path \in files,
               main_cfg.modified)

LogRecord(action) ==
  [idx |-> i, action |-> action, key |-> key, path |-> path, cmp |-> cmp,
   name |-> design.names[cmp], rev |-> revisionId[cmp], old |-> old,
   existed |-> path \in files, modified |-> main_cfg.modified, now |-> clock,
   cfgup |-> cfg.up,
   rotated |-> FALSE, exported |-> FALSE, unlinked |-> files \ files']

\* lines 167-204: the recorded export is current, continue with the next component
IterSkip ==
  /\ InLoop
  /\ Skips
  /\ i' = i + 1
  /\ dialog' = [dialog EXCEPT !.progressValue = i - 1]
  /\ UNCHANGED files
  /\ log' = Append(log, LogRecord("skip"))
  /\ UNCHANGED <<host, sel, configFile, manifestFile, clock, steps, pc, main_cfg,
                 components, version_control, newMoveFeature, result, loaded, mf0,
                 files0>>

\* lines 206-218: unlink the old file, write the manifest entry
Restamp ==
  /\ files' = files \ OldFiles(old, path, files)
  /\ version_control' =
       [k \in DOMAIN version_control \cup {key} |->
          IF k = key THEN NewEntry(design, cmp, path, revisionId[cmp], clock)
          ELSE version_control[k]]
  /\ dialog' = [dialog EXCEPT !.progressValue = i - 1]

\* lines 167-257: a stale component, up to the call of the exporter
IterBegin ==
  /\ InLoop
  /\ ~Skips
  /\ Rotates(cfg) => cfg.up \in VALID_ORIENTATIONS
  /\ Restamp
  /\ IF Rotates(cfg)
     THEN /\ moveFeatures' = [moveFeatures EXCEPT ![cmp] = @ + 1]
          /\ revisionId' = [revisionId EXCEPT ![cmp] = @ + 1]
          /\ newMoveFeature' = TRUE
     ELSE /\ UNCHANGED <<moveFeatures, revisionId>>
          /\ newMoveFeature' = FALSE
  /\ pc' = "exporting"
  /\ log' = Append(log, [LogRecord("export") EXCEPT !.rotated = Rotates(cfg)])
  /\ UNCHANGED <<design, sel, configFile, manifestFile, clock, steps, main_cfg,
                 components, i, result, loaded, mf0, files0>>

\* line 232: the orientation is not valid, export() raises AssertionError
IterInvalidOrientation ==
  /\ InLoop
  /\ ~Skips
  /\ Rotates(cfg) /\ cfg.up \notin VALID_ORIENTATIONS
  /\ Restamp
  /\ pc' = "raised"
  /\ result' = "AssertionError"
  /\ log' = Append(log, LogRecord("export"))
  /\ UNCHANGED <<host, sel, configFile, manifestFile, clock, steps, main_cfg,
                 components, i, newMoveFeature, loaded, mf0, files0>>

\* lines 247-260: exportMgr.execute writes the mesh file
DoExport ==
  /\ pc = "exporting"
  /\ files' = files \cup {path}
  /\ pc' = "exported"
  /\ log' = [log EXCEPT ![Len(log)].exported = TRUE]
  /\ UNCHANGED <<host, sel, configFile, manifestFile, clock, steps, exportLocals,
                 result, loaded, mf0, files0>>

\* (mutant) the move feature is left in place
DeleteMeNot(mf, c, new) == mf

\* lines 263-264: newMoveFeature.deleteMe()
DeleteMe(mf, c, new) == IF new THEN [mf EXCEPT ![c] = @ - 1] ELSE mf

\* (mutant) the cancel button is not looked at
BreaksNever(d) == FALSE

\* line 267: the loop breaks
Breaks(d) == d.wasCancelled

\* lines 262-270: delete the move feature, look at the cancel button
IterEnd ==
  /\ pc = "exported"
  /\ moveFeatures' = DeleteMe(moveFeatures, cmp, newMoveFeature)
  /\ revisionId' = IF newMoveFeature THEN [revisionId EXCEPT ![cmp] = @ + 1]
                   ELSE revisionId
  /\ newMoveFeature' = FALSE
  /\ IF Breaks(dialog)
     THEN /\ pc' = "break"
          /\ UNCHANGED <<i, dialog>>
     ELSE /\ pc' = "loop"
          /\ i' = i + 1
          /\ dialog' = [dialog EXCEPT !.progressValue = i]
  /\ UNCHANGED <<design, sel, files, configFile, manifestFile, clock, steps, main_cfg,
                 components, version_control, result, history>>

\* lines 272-276: hide the dialog, write the manifest, return
Finish ==
  /\ \/ pc = "loop" /\ i > Len(components)
     \/ pc = "break"
  /\ dialog' = [dialog EXCEPT !.hidden = TRUE]
  /\ manifestFile' = <<version_control>>
  /\ pc' = "done"
  /\ result' = "exported"
  /\ UNCHANGED <<host, sel, files, configFile, clock, steps, main_cfg, components, i,
                 version_control, newMoveFeature, history>>

\* on_destroy: the command is over, export()'s locals are gone
OnDestroy ==
  /\ pc \in {"done", "raised"}
  /\ pc' = "idle"
  /\ main_cfg' = generate(<<>>)
  /\ components' = <<>>
  /\ i' = 1
  /\ version_control' = <<>>
  /\ dialog' = NoDialog
  /\ newMoveFeature' = FALSE
  /\ result' = "none"
  /\ loaded' = <<>>
  /\ log' = <<>>
  /\ mf0' = moveFeatures
  /\ files0' = files
  /\ sel' = Component(RootComp)
  /\ UNCHANGED <<host, files, configFile, manifestFile, clock, steps>>

Next ==
  \/ EditConfig
  \/ ModifyComponent
  \/ RemoveFile
  \/ Cancel
  \/ OnExecuteBadSelection
  \/ OnExecuteCreateConfig
  \/ OnExecuteBadVersion
  \/ OnExecuteExport
  \/ IterSkip
  \/ IterBegin
  \/ IterInvalidOrientation
  \/ DoExport
  \/ IterEnd
  \/ Finish
  \/ OnDestroy

Spec == Init /\ [][Next]_vars

\* The export loop runs to its end: each of its steps is code of export() or a
\* call of the host that returns.
LoopStep == IterSkip \/ IterBegin \/ IterInvalidOrientation \/ DoExport \/ IterEnd \/ Finish

FairSpec == Spec /\ WF_vars(LoopStep)

-----------------------------------------------------------------------------
(* Vocabulary of the claims, over the history of the run                   *)

\* export() has returned normally
Returned == pc = "done" /\ result = "exported"

\* the manifest that was on disk when the run started (empty if there was none)
LoadedManifest == IF loaded = <<>> THEN <<>> ELSE loaded[1]

\* the iterations of this run that invoked the mesh exporter
Exported == {k \in 1..Len(log) : log[k].exported}

\* the last iteration of this run that exported under file key fk
LastExport(fk) ==
  CHOOSE k \in Exported :
    /\ log[k].key = fk
    /\ \A j \in Exported : log[j].key = fk => j <= k

ExportedKeys == {log[k].key : k \in Exported}

\* what the recorded export of an iteration says about the component, as the
\* claims put it
RecordedSame(r) ==
  /\ r.old # <<>>
  /\ r.old[1].component = r.name
  /\ r.old[1].revisionId = r.rev
  /\ r.existed

\* the configuration file was modified after the recorded export time
ConfigModifiedSince(r) == r.old # <<>> /\ r.old[1].changed < r.modified

\* C1: a component whose manifest entry records its name and its revisionId,
\* whose output file exists and whose configuration file was not modified after
\* the recorded export time is skipped: the exporter is not invoked for it and
\* its manifest entry stays as it was.
C1_UnchangedIsSkipped ==
  \A k \in 1..Len(log) :
    (RecordedSame(log[k]) /\ ~ConfigModifiedSince(log[k]))
      => /\ log[k].action = "skip"
         /\ ~log[k].exported

\* C2: a stale component is never skipped: with no manifest entry, another
\* recorded name or revisionId, a missing output file, or a configuration file
\* modified after the recorded export time, the iteration exports.
C2_StaleIsExported ==
  \A k \in 1..Len(log) :
    (~RecordedSame(log[k]) \/ ConfigModifiedSince(log[k]))
      => log[k].action = "export"

\* the configuration the first run is to write: one entry per counted name
GeneratedTo(name) == Replace(Lower(name), " ", "_")

\* C6: a command run without a configuration file writes one (v = 1, fmt "stl",
\* one entry per counted component name with its lower-cased, underscored
\* target, sorted by name), shows the "Created" message, exports nothing, and
\* parse_file reads the same fmt and name/to pairs back.
C6_FirstRunCreatesConfig ==
  (pc \in {"done", "raised"} /\ result \in {"AttributeError",
                                           "Created new export configuration file."})
    => /\ result = "Created new export configuration file."
       /\ configFile # <<>>
       /\ configFile[1].v = 1
       /\ configFile[1].fmt = <<"stl">>
       /\ Len(configFile[1].components) = Len(component_counts(design))
       /\ {c.name : c \in {configFile[1].components[k] :
                             k \in 1..Len(configFile[1].components)}}
            = KeySet(component_counts(design))
       /\ \A k \in 1..Len(configFile[1].components) :
            /\ configFile[1].components[k].to
                 = GeneratedTo(configFile[1].components[k].name)
            /\ k > 1 => ~StrLess(configFile[1].components[k].name,
                                 configFile[1].components[k - 1].name)
       /\ LET parsed == parse_file(configFile[1], component_counts(design))
          IN /\ parsed.fmt = <<"stl">>
             /\ \A k \in 1..Len(parsed.components) :
                  /\ parsed.components[k].name = configFile[1].components[k].name
                  /\ parsed.components[k].to = configFile[1].components[k].to
       /\ log = <<>>
       /\ manifestFile = <<>>

-----------------------------------------------------------------------------
(* The traversal and the list of components to export                      *)

RECURSIVE Beneath(_, _)
\* the components of S and those with an occurrence beneath them at any depth:
\* the least set that holds S and the component of every occurrence placed in
\* one of its members
Beneath(d, S) ==
  LET T == S \cup UNION {{d.occs[p][k].component : k \in 1..Len(d.occs[p])} : p \in S}
  IN IF T = S THEN S ELSE Beneath(d, T)

EnumerationRight(d, s) ==
  LET rv == recursiveEnumerateComponents(d, s)
      under == Beneath(d, {s.component})
  IN /\ \A a, b \in 1..Len(rv) : rv[a][1] = rv[b][1] => a = b
     /\ KeySet(rv) = {d.names[c] : c \in under}
     /\ \A a \in 1..Len(rv) : rv[a][2] \in under /\ d.names[rv[a][2]] = rv[a][1]

InExport == pc \in {"loop", "exporting", "exported", "break"} \/ dialog.shown

ConfiguredAndFound ==
  LET Found(c) == c.name \in {design.names[x] : x \in Beneath(design, {sel.component})}
  IN SelectSeq(main_cfg.components, Found)

\* C5: recursiveEnumerateComponents returns one entry per component name, for
\* exactly the names of the root's component and of the components with an
\* occurrence beneath it, each mapped to a component of that name; and export()
\* goes through exactly the configured components with such a name, in the
\* order of the configuration.
C5_EnumeratesTheTree ==
  /\ steps = 0 => \A s \in Selections(design) : EnumerationRight(design, s)
  /\ InExport =>
       /\ EnumerationRight(design, sel)
       /\ Len(components) = Len(ConfiguredAndFound)
       /\ \A k \in 1..Len(components) :
            /\ components[k].cfg = ConfiguredAndFound[k]
            /\ design.names[components[k].cmp] = components[k].cfg.name
            /\ components[k].cmp \in Beneath(design, {sel.component})
       /\ Len(log) <= Len(components)
       /\ \A k \in 1..Len(log) :
            /\ log[k].idx = k
            /\ log[k].cmp = components[k].cmp
            /\ log[k].key = file_key(components[k].cfg, main_cfg)
       /\ (Returned /\ ~dialog.wasCancelled) => Len(log) = Len(components)

\* a run over a nested selection that found some configured components and not others
C5_Witness ==
  /\ Returned
  /\ sel.kind = "Occurrence"
  /\ Cardinality(Beneath(design, {sel.component})) > 1
  /\ Len(components) >= 1
  /\ Len(components) < Len(main_cfg.components)
  /\ Len(log) = Len(components)

-----------------------------------------------------------------------------
(* The manifest                                                            *)

\* C3: when export() returns normally, the manifest file is the loaded manifest
\* overridden at exactly the file keys exported in the run, each with the
\* entry of the (last) export under that key: the component's name, the path
\* exported to, the revisionId read for the entry, the root component's name
\* and the export time.  Every other key keeps its loaded entry.
C3_ManifestIsLoadedPlusExports ==
  Returned =>
    /\ manifestFile # <<>>
    /\ DOMAIN manifestFile[1] = DOMAIN LoadedManifest \cup ExportedKeys
    /\ \A fk \in DOMAIN manifestFile[1] :
         IF fk \in ExportedKeys
         THEN LET r == log[LastExport(fk)]
              IN manifestFile[1][fk] =
                   [component |-> r.name, filename |-> r.path, revisionId |-> r.rev,
                    fromDocument |-> design.names[RootComp], changed |-> r.now]
         ELSE manifestFile[1][fk] = LoadedManifest[fk]

\* a run that exported one component, skipped another and left the entry of a
\* component outside the selection alone
C3_Witness ==
  /\ Returned
  /\ Exported # {}
  /\ \E k \in 1..Len(log) : log[k].action = "skip"
  /\ \E fk \in DOMAIN LoadedManifest : \A k \in 1..Len(log) : log[k].key # fk

-----------------------------------------------------------------------------
(* The temporary reorientation                                             *)

\* C4: a component has one move feature more than before the run exactly while
\* it is being exported with an 'up' that is set and not 'z'; at every other
\* time, and whenever export() has returned or raised, every component has the
\* move features it had before the run.
C4_ReorientationIsTemporary ==
  \A c \in Comps(design) :
    IF /\ pc \in {"exporting", "exported"}
       /\ c = components[i].cmp
       /\ components[i].cfg.up \notin {None, "z"}
    THEN moveFeatures[c] = mf0[c] + 1
    ELSE moveFeatures[c] = mf0[c]

\* a run that has returned after exporting a rotated component
C4_Witness ==
  /\ Returned
  /\ \E k \in Exported : log[k].rotated /\ log[k].cfgup \notin {None, "z"}

-----------------------------------------------------------------------------
(* The old file of a renamed export                                        *)

\* iteration k exported a component whose entry recorded another file name
Renamed(k) ==
  /\ log[k].exported
  /\ log[k].old # <<>>
  /\ log[k].old[1].filename # log[k].path

\* nothing is unlinked by an iteration that skips or keeps the file name
UnlinksOnlyRenamed ==
  \A k \in 1..Len(log) :
    (\/ log[k].action = "skip"
     \/ log[k].old = <<>>
     \/ log[k].old[1].filename = log[k].path) => log[k].unlinked = {}

\* every entry written in the run names a file that exists
WrittenEntriesExist == \A fk \in ExportedKeys : manifestFile[1][fk].filename \in files

\* every entry written in the run names a file that exists, unless an iteration
\* after the key's last export unlinked that file as its own recorded file
WrittenEntriesExistUnlessUnlinked ==
  \A fk \in ExportedKeys :
    \/ manifestFile[1][fk].filename \in files
    \/ \E j \in 1..Len(log) : /\ j > LastExport(fk)
                               /\ manifestFile[1][fk].filename \in log[j].unlinked

\* C7 as claimed: after the run the previously recorded file of every renamed
\* export is gone and the manifest entry names that export's new file; nothing
\* is deleted otherwise; every entry written names an existing file.
C7_OldFileGoneAfterRun ==
  Returned =>
    /\ \A k \in Exported :
         Renamed(k) => /\ log[k].old[1].filename \notin files
                       /\ manifestFile[1][log[k].key].filename = log[k].path
    /\ UnlinksOnlyRenamed
    /\ WrittenEntriesExist

\* C7, amended: the previously recorded file of a renamed export is deleted
\* before the component is exported; after a run that returns normally it does
\* not exist unless a later export of that run wrote to that path, and the
\* manifest entry names the file of the last export under the key; nothing is
\* deleted otherwise; every entry written names an existing file, unless a
\* component processed later in the run had that path recorded as its own
\* previous file and deleted it.
C7_OldFileDeletedBeforeExport ==
  /\ (pc \in {"exporting", "exported"} /\ log[Len(log)].old # <<>>
        /\ log[Len(log)].old[1].filename # log[Len(log)].path)
       => log[Len(log)].old[1].filename \notin files
  /\ UnlinksOnlyRenamed
  /\ Returned =>
       /\ \A k \in Exported :
            Renamed(k) =>
              /\ \/ log[k].old[1].filename \notin files
                 \/ \E j \in Exported : j > k /\ log[j].path = log[k].old[1].filename
              /\ manifestFile[1][log[k].key].filename = log[LastExport(log[k].key)].path
       /\ WrittenEntriesExistUnlessUnlinked

\* a run that replaced a file which was there before the run by one of another name
C7_Witness ==
  /\ Returned
  /\ \E k \in Exported :
       /\ Renamed(k)
       /\ log[k].old[1].filename \in files0
       /\ log[k].old[1].filename \notin files
       /\ log[k].path \in files

-----------------------------------------------------------------------------
(* Cancel                                                                  *)

AllProcessed ==
  /\ Len(log) = Len(components)
  /\ \A k \in 1..Len(log) : log[k].action = "skip" \/ log[k].exported

\* the run was stopped by cancel after iteration i
StoppedByCancel ==
  /\ dialog.wasCancelled
  /\ Len(log) = i
  /\ log[i].exported
  /\ dialog.hidden
  /\ \A k \in Exported :
       /\ log[k].key \in DOMAIN manifestFile[1]
       /\ manifestFile[1][log[k].key].filename = log[LastExport(log[k].key)].path

\* C8 as claimed: a run of export() that is over either was stopped by cancel
\* after an export, with the dialog hidden and the manifest written, or, when
\* cancel was never pressed, has processed every component: exported it or
\* skipped it.
C8_CancelledOrAllExported ==
  (pc \in {"done", "raised"} /\ dialog.shown) =>
    /\ pc = "done"
    /\ i <= Len(components) => StoppedByCancel
    /\ ~dialog.wasCancelled => AllProcessed

\* C8, amended: cancel seen at the end of an export stops the loop (no later
\* component is exported, the dialog is hidden, the manifest written with the
\* entries exported so far); without cancel every component is exported or
\* skipped, unless a component's orientation is not valid, in which case
\* export() raises at that component without exporting it, hiding the dialog
\* or writing the manifest; and the loop always comes to one of these ends.
C8_CancelStopsTheLoop ==
  /\ [][(pc = "exported" /\ dialog.wasCancelled) => (pc' = "break" /\ log' = log)]_vars
  /\ [][pc = "break" => /\ pc' = "done"
                        /\ log' = log
                        /\ files' = files
                        /\ dialog'.hidden
                        /\ manifestFile' = <<version_control>>]_vars
  /\ []((Returned /\ i <= Len(components)) => StoppedByCancel)
  /\ []((Returned /\ ~dialog.wasCancelled) => AllProcessed)
  /\ []((pc = "raised" /\ dialog.shown) =>
          /\ log[Len(log)].cfgup \notin VALID_ORIENTATIONS \cup {None}
          /\ ~log[Len(log)].exported
          /\ ~dialog.hidden
          /\ manifestFile = loaded)
  /\ []<>(pc \in {"idle", "done", "raised"})

\* cancel stopped a run before its last component
C8_Witness ==
  /\ Returned
  /\ dialog.wasCancelled
  /\ i < Len(components)
  /\ Exported # {}

====
